---- MODULE Spec2Model ----
(***************************************************************************)
(* Offset pagination helper paginateCollection                             *)
(* (utils/pagination__collection.js) run against a MongoDB collection that *)
(* other endpoints write concurrently.                                     *)
(*                                                                         *)
(* JavaScript values: a number n is the tuple <<n>>, NaN and null are the  *)
(* empty tuple; a string is a tuple of one-character strings.              *)
(***************************************************************************)
EXTENDS Integers, Sequences, FiniteSets, TLC

\* ---- bounds of the model ----
MaxDocs == 3        \* documents in the collection when the server starts
MaxWrites == 1      \* writes other endpoints perform while the model runs

\* ---- JavaScript values ----
NaN == <<>>
Null == <<>>
Num(n) == <<n>>

Min(a, b) == IF a < b THEN a ELSE b
Max(a, b) == IF a > b THEN a ELSE b
Abs(a) == IF a < 0 THEN 0 - a ELSE a

\* ToString(undefined): what Number.parseInt sees for a missing query key
Undefined == <<"u", "n", "d", "e", "f", "i", "n", "e", "d">>

\* ---- Number.parseInt(string), radix omitted ----
DigitChars == <<"0", "1", "2", "3", "4", "5", "6", "7", "8", "9",
                "a", "b", "c", "d", "e", "f">>

\* value of a digit character, 16 when the character is no digit
DigitVal(c) ==
    IF \E i \in 1..16 : DigitChars[i] = c
    THEN (CHOOSE i \in 1..16 : DigitChars[i] = c) - 1
    ELSE 16

RECURSIVE TrimStart(_)
TrimStart(s) == IF s # <<>> /\ Head(s) = " " THEN TrimStart(Tail(s)) ELSE s

\* longest prefix of digits of the radix: n digits read, v their value
RECURSIVE ParseDigits(_, _, _, _)
ParseDigits(s, radix, acc, n) ==
    IF s = <<>> \/ DigitVal(Head(s)) >= radix
    THEN [n |-> n, v |-> acc]
    ELSE ParseDigits(Tail(s), radix, acc * radix + DigitVal(Head(s)), n + 1)

parseInt(str) ==
    LET s0 == TrimStart(str)
        neg == s0 # <<>> /\ Head(s0) = "-"
        s1 == IF s0 # <<>> /\ Head(s0) \in {"+", "-"} THEN Tail(s0) ELSE s0
        hex == Len(s1) >= 2 /\ s1[1] = "0" /\ s1[2] \in {"x", "X"}
        s2 == IF hex THEN SubSeq(s1, 3, Len(s1)) ELSE s1
        d == ParseDigits(s2, IF hex THEN 16 ELSE 10, 0, 0)
    IN  IF d.n = 0 THEN NaN ELSE IF neg THEN Num(0 - d.v) ELSE Num(d.v)

\* JavaScript `value || dflt` on a number: NaN and 0 are falsy
OrDefault(value, dflt) == IF value = NaN \/ value = Num(0) THEN dflt ELSE value[1]

DefaultPageSize == 6
DefaultCursor == 0

\* const pageSize = Number.parseInt(req.query.limit) || 6
PageSizeOf(limit) == OrDefault(parseInt(limit), DefaultPageSize)
\* const cursor = Number.parseInt(req.query.cursor) || 0
CursorOf(cursor) == OrDefault(parseInt(cursor), DefaultCursor)

\* ---- request inputs ----
\* req.query.limit: missing, non-numeric, zero, positive, negative, hex
LimitInputs == { Undefined, <<"x">>, <<"0">>, <<"2">>, <<"-", "2">>, <<"0", "x", "1">> }
\* req.query.cursor: missing, in range, digits then garbage, out of range, negative
CursorInputs == { Undefined, <<"1">>, <<" ", "2", "a">>, <<"9">>, <<"-", "1">> }

\* filters the endpoints pass: {} (donation campaigns) and { adopted: false } (pets)
NoFilter == [k \in {} |-> FALSE]
AvailableFilter == [adopted |-> FALSE]
Filters == { NoFilter, AvailableFilter }

\* ---- the collection ----
Doc(id, adopted) == [id |-> id, adopted |-> adopted]

\* collections the server can start with: the first n documents of a sample
\* in which every second pet is already adopted, in insertion order
SampleDocs(n) == [i \in 1..n |-> Doc(i, i % 2 = 0)]
InitialStores == { SampleDocs(n) : n \in 0..MaxDocs }

Matches(doc, filter) == \A k \in DOMAIN filter : doc[k] = filter[k]

\* collection.find(filter): matching documents in natural order
find(coll, filter) == SelectSeq(coll, LAMBDA d : Matches(d, filter))

\* the count of the whole collection, the filter dropped
estimatedDocumentCount(coll, filter) == Len(coll)

\* collection.countDocuments(filter)
countDocuments(coll, filter) == Len(find(coll, filter))

\* cursor.skip(n).limit(m).toArray() for n >= 0: limit 0 is no limit, a negative
\* limit is its absolute value (single batch)
skipLimit(docs, n, m) ==
    LET last == IF m = 0 THEN Len(docs) ELSE Min(Len(docs), n + Abs(m))
    IN  SubSeq(docs, n + 1, last)

\* the server rejects a find command whose skip is negative
SkipRejected(n) == n < 0

\* errors of the store: outages, and the rejection of a bad command
StoreFaults == { "NetworkError", "Timeout" }
BadValue == "BadValue"

\* ---- paginateCollection ----
\* the adjustment with > in place of >=
AdjustedCursorStrict(cursor, total, pageSize) ==
    IF cursor > total THEN Max(total - pageSize, 0) ELSE cursor

\* const adjustedCursor = cursor >= total ? Math.max(total - pageSize, 0) : cursor
AdjustedCursor(cursor, total, pageSize) ==
    IF cursor >= total THEN Max(total - pageSize, 0) ELSE cursor

\* nextId with <= in place of <
NextIdInclusive(adjustedCursor, pageSize, total) ==
    IF adjustedCursor + pageSize <= total THEN Num(adjustedCursor + pageSize) ELSE Null

\* const nextId = adjustedCursor + pageSize < total ? adjustedCursor + pageSize : null
NextId(adjustedCursor, pageSize, total) ==
    IF adjustedCursor + pageSize < total THEN Num(adjustedCursor + pageSize) ELSE Null

\* previousId with > in place of >=
PreviousIdStrict(adjustedCursor, pageSize) ==
    IF adjustedCursor - pageSize > 0 THEN Num(adjustedCursor - pageSize) ELSE Null

\* const previousId = adjustedCursor - pageSize >= 0 ? adjustedCursor - pageSize : null
PreviousId(adjustedCursor, pageSize) ==
    IF adjustedCursor - pageSize >= 0 THEN Num(adjustedCursor - pageSize) ELSE Null

NoResult == <<>>
PageResult(items, nextId, previousId, total) ==
    <<[items |-> items, nextId |-> nextId, previousId |-> previousId, total |-> total]>>

VARIABLES
    store,          \* the collection, in natural order
    writes,         \* number of writes made to the collection so far
    pc,             \* per call: "idle", "count", "fetch", "done", "failed"
    query,          \* per call: req.query.limit, req.query.cursor and the filter
    pageSize,       \* per call: const pageSize
    cursor,         \* per call: const cursor
    total,          \* per call: const total
    adjustedCursor, \* per call: const adjustedCursor
    result,         \* per call: the value the call returned, NoResult before
    thrown,         \* per call: the error the call rejected with, Null before
    issued,         \* per call: commands sent to the store, and the error it answered
    seen,           \* per call: value of writes at the count and at the fetch
    prev,           \* per call: outcome of the previous call with the same request
    pets,           \* allPets as the recommendation handlers read it, natural order
    rpc,            \* recommendation request: "idle", "aggregate", "done"
    rquery,         \* recommendation request: handler and req.query
    ragg,           \* recommendation request: aggregations sent, their $limit, error answered
    rresp,          \* recommendation request: responses sent, in order
    hpc,            \* per HTTP request: "idle", "verify", "handler", "done", "unhandled"
    hreq,           \* per HTTP request: endpoint, token cookie, req.user
    hlog,           \* per HTTP request: middleware and handlers that ran, in order
    hresp,          \* per HTTP request: status codes sent, in order
    db,             \* AdoptiPetDB: collection name -> set of documents
    task            \* per request of the application endpoints: inputs, position, locals, status

pageVars == <<store, writes, pc, query, pageSize, cursor, total, adjustedCursor,
              result, thrown, issued, seen, prev>>

callVars == <<pc, query, pageSize, cursor, total, adjustedCursor,
              result, thrown, issued, seen, prev>>

recVars == <<pets, rpc, rquery, ragg, rresp>>

webVars == <<hpc, hreq, hlog, hresp>>

appVars == <<db, task>>

vars == <<pageVars, recVars, webVars, appVars>>

Calls == { 1 }
Reqs == { 1, 2 }

NoQuery == [limit |-> Undefined, cursor |-> Undefined, filter |-> NoFilter]
NoPrev == <<>>

\* no call of paginateCollection has started
CallsIdle(S) ==
    /\ pc = [r \in S |-> "idle"]
    /\ query = [r \in S |-> NoQuery]
    /\ pageSize = [r \in S |-> DefaultPageSize]
    /\ cursor = [r \in S |-> DefaultCursor]
    /\ total = [r \in S |-> 0]
    /\ adjustedCursor = [r \in S |-> 0]
    /\ result = [r \in S |-> NoResult]
    /\ thrown = [r \in S |-> Null]
    /\ issued = [r \in S |-> [count |-> 0, fetch |-> 0, error |-> Null]]
    /\ seen = [r \in S |-> [count |-> 0, fetch |-> 0]]
    /\ prev = [r \in S |-> NoPrev]

NoRecQuery == [mode |-> "basic", categories |-> <<>>, district |-> <<>>, limit |-> Undefined]

\* no recommendation request has arrived
RecIdle ==
    /\ rpc = "idle"
    /\ rquery = NoRecQuery
    /\ ragg = [count |-> 0, limit |-> NaN, error |-> Null]
    /\ rresp = <<>>

\* req.cookies.token: no cookie at all
NoToken == [cookie |-> FALSE, value |-> "", key |-> "", expired |-> FALSE]
NoReq == [endpoint |-> "", token |-> NoToken, user |-> Null]

\* no HTTP request has arrived
WebIdle ==
    /\ hpc = [q \in Reqs |-> "idle"]
    /\ hreq = [q \in Reqs |-> NoReq]
    /\ hlog = [q \in Reqs |-> <<>>]
    /\ hresp = [q \in Reqs |-> <<>>]

Tasks == { 1, 2 }

\* const db = client.db("AdoptiPetDB") and its collections
EmptyDb ==
    [users |-> {}, allPets |-> {}, adoptRequests |-> {}, donationsCollection |-> {},
     recievedDonationCollection |-> {}, reviews |-> {}]

NoTask ==
    [endpoint |-> "", caller |-> "", email |-> "", id |-> 0, body |-> <<>>,
     pc |-> "idle", local |-> <<>>, status |-> 0]

\* no request of the application endpoints has arrived
AppIdle ==
    /\ db = EmptyDb
    /\ task = [t \in Tasks |-> NoTask]

Init ==
    /\ store \in InitialStores
    /\ writes = 0
    /\ CallsIdle(Calls)
    /\ pets = <<>>
    /\ RecIdle
    /\ WebIdle
    /\ AppIdle

\* lines 2-5: the call starts, parses its paging inputs and sends the count
Start(r, q) ==
    /\ query' = [query EXCEPT ![r] = q]
    /\ pageSize' = [pageSize EXCEPT ![r] = PageSizeOf(q.limit)]
    /\ cursor' = [cursor EXCEPT ![r] = CursorOf(q.cursor)]
    /\ pc' = [pc EXCEPT ![r] = "count"]
    /\ total' = [total EXCEPT ![r] = 0]
    /\ adjustedCursor' = [adjustedCursor EXCEPT ![r] = 0]
    /\ result' = [result EXCEPT ![r] = NoResult]
    /\ thrown' = [thrown EXCEPT ![r] = Null]
    /\ issued' = [issued EXCEPT ![r] = [count |-> 0, fetch |-> 0, error |-> Null]]
    /\ seen' = [seen EXCEPT ![r] = [count |-> 0, fetch |-> 0]]
    /\ UNCHANGED <<store, writes>>

Call(r) ==
    /\ pc[r] = "idle"
    /\ \E l \in LimitInputs, c \in CursorInputs, f \in Filters :
          Start(r, [limit |-> l, cursor |-> c, filter |-> f])
    /\ UNCHANGED <<prev, recVars, webVars, appVars>>

\* the same request sent again after its page came back
Again(r) ==
    /\ pc[r] = "done"
    /\ prev' = [prev EXCEPT ![r] = <<[result |-> result[r], seen |-> seen[r]]>>]
    /\ Start(r, query[r])
    /\ UNCHANGED <<recVars, webVars, appVars>>

\* lines 8-11: the store answers the count; the cursor is adjusted
Count(r) ==
    /\ pc[r] = "count"
    /\ LET t == countDocuments(store, query[r].filter) IN
          /\ total' = [total EXCEPT ![r] = t]
          /\ adjustedCursor' =
                [adjustedCursor EXCEPT ![r] = AdjustedCursor(cursor[r], t, pageSize[r])]
    /\ issued' = [issued EXCEPT ![r].count = @ + 1]
    /\ seen' = [seen EXCEPT ![r].count = writes]
    /\ pc' = [pc EXCEPT ![r] = "fetch"]
    /\ UNCHANGED <<store, writes, query, pageSize, cursor, result, thrown, prev, recVars, webVars, appVars>>

\* a count that is sent a second time when the first one rejects
CountFailRetry(r) ==
    /\ pc[r] = "count"
    /\ \E e \in StoreFaults :
          /\ issued' = [issued EXCEPT ![r].count = @ + 1, ![r].error = Num(e)]
          /\ thrown' = [thrown EXCEPT ![r] = IF issued[r].count = 0 THEN Null ELSE Num(e)]
    /\ pc' = [pc EXCEPT ![r] = IF issued[r].count = 0 THEN "count" ELSE "failed"]
    /\ UNCHANGED <<store, writes, query, pageSize, cursor, total, adjustedCursor,
                   result, seen, prev, recVars, webVars, appVars>>

\* line 8: the count rejects; the await rethrows to the caller
CountFail(r) ==
    /\ pc[r] = "count"
    /\ \E e \in StoreFaults :
          /\ issued' = [issued EXCEPT ![r].count = @ + 1, ![r].error = Num(e)]
          /\ thrown' = [thrown EXCEPT ![r] = Num(e)]
    /\ pc' = [pc EXCEPT ![r] = "failed"]
    /\ UNCHANGED <<store, writes, query, pageSize, cursor, total, adjustedCursor,
                   result, seen, prev, recVars, webVars, appVars>>

\* a fetch that takes the documents of the page out of the collection
FetchAndRemove(r) ==
    /\ pc[r] = "fetch"
    /\ ~SkipRejected(adjustedCursor[r])
    /\ LET items == skipLimit(find(store, query[r].filter), adjustedCursor[r], pageSize[r])
       IN  /\ result' = [result EXCEPT ![r] =
                   PageResult(items,
                              NextId(adjustedCursor[r], pageSize[r], total[r]),
                              PreviousId(adjustedCursor[r], pageSize[r]),
                              total[r])]
           /\ store' = SelectSeq(store,
                           LAMBDA d : \A k \in 1..Len(items) : items[k] # d)
    /\ issued' = [issued EXCEPT ![r].fetch = @ + 1]
    /\ seen' = [seen EXCEPT ![r].fetch = writes]
    /\ pc' = [pc EXCEPT ![r] = "done"]
    /\ UNCHANGED <<writes, query, pageSize, cursor, total, adjustedCursor,
                   thrown, prev, recVars, webVars, appVars>>

\* lines 14-25: the store answers the find; the page is built and returned
Fetch(r) ==
    /\ pc[r] = "fetch"
    /\ ~SkipRejected(adjustedCursor[r])
    /\ LET items == skipLimit(find(store, query[r].filter), adjustedCursor[r], pageSize[r])
       IN  result' = [result EXCEPT ![r] =
                PageResult(items,
                           NextId(adjustedCursor[r], pageSize[r], total[r]),
                           PreviousId(adjustedCursor[r], pageSize[r]),
                           total[r])]
    /\ issued' = [issued EXCEPT ![r].fetch = @ + 1]
    /\ seen' = [seen EXCEPT ![r].fetch = writes]
    /\ pc' = [pc EXCEPT ![r] = "done"]
    /\ UNCHANGED <<store, writes, query, pageSize, cursor, total, adjustedCursor,
                   thrown, prev, recVars, webVars, appVars>>

\* lines 14-18: the find rejects, by an outage or because the skip is negative
FetchFail(r) ==
    /\ pc[r] = "fetch"
    /\ \E e \in (IF SkipRejected(adjustedCursor[r]) THEN { BadValue } ELSE StoreFaults) :
          /\ issued' = [issued EXCEPT ![r].fetch = @ + 1, ![r].error = Num(e)]
          /\ thrown' = [thrown EXCEPT ![r] = Num(e)]
    /\ pc' = [pc EXCEPT ![r] = "failed"]
    /\ UNCHANGED <<store, writes, query, pageSize, cursor, total, adjustedCursor,
                   result, seen, prev, recVars, webVars, appVars>>

\* ---- writes of other endpoints ----
FreshId == MaxDocs + writes + 1

\* POST /add-pet, POST /add-donation-campaign: insertOne
InsertOne ==
    /\ writes < MaxWrites
    /\ \E a \in BOOLEAN : store' = Append(store, Doc(FreshId, a))
    /\ writes' = writes + 1
    /\ UNCHANGED <<callVars, recVars, webVars, appVars>>

\* DELETE /dashboard/my-added-pets/:id: deleteOne
DeleteOne ==
    /\ writes < MaxWrites
    /\ \E i \in 1..Len(store) :
          store' = SubSeq(store, 1, i - 1) \o SubSeq(store, i + 1, Len(store))
    /\ writes' = writes + 1
    /\ UNCHANGED <<callVars, recVars, webVars, appVars>>

\* PATCH /adoption-request-update/:id: updateOne sets the pet's adopted flag
UpdateOne ==
    /\ writes < MaxWrites
    /\ \E i \in 1..Len(store), a \in BOOLEAN :
          /\ store[i].adopted # a
          /\ store' = [store EXCEPT ![i].adopted = a]
    /\ writes' = writes + 1
    /\ UNCHANGED <<callVars, recVars, webVars, appVars>>

Next ==
    \/ \E r \in Calls : Call(r)
    \/ \E r \in Calls : Again(r)
    \/ \E r \in Calls : Count(r)
    \/ \E r \in Calls : CountFail(r)
    \/ \E r \in Calls : Fetch(r)
    \/ \E r \in Calls : FetchFail(r)
    \/ InsertOne
    \/ DeleteOne
    \/ UpdateOne

Spec == Init /\ [][Next]_vars

\* ---- recommendation handlers: getPetRecommendations, getAdvancedPetRecommendations ----

MaxPets == 3        \* pets in allPets when a recommendation is requested

\* a document is a function from its field names to their values
Has(d, k) == k \in DOMAIN d
Without(d, ks) == [k \in DOMAIN d \ ks |-> d[k]]
With(d, k, v) == [j \in DOMAIN d \cup {k} |-> IF j = k THEN v ELSE d[j]]

\* ---- $regex / $regexMatch with options "i" ----
Lower(c) ==
    CASE c = "A" -> "a" [] c = "B" -> "b" [] c = "C" -> "c" [] c = "D" -> "d"
      [] OTHER -> c

\* the pattern matches the input from offset i on; "." stands for any character
MatchesAt(pattern, input, i) ==
    \A k \in 1..Len(pattern) :
        pattern[k] = "." \/ Lower(pattern[k]) = Lower(input[i + k])

\* unanchored, case-insensitive regular expression match
regexMatch(pattern, input) ==
    \E i \in 0..(Len(input) - Len(pattern)) : MatchesAt(pattern, input, i)

\* ---- values the server writes ----
DayMs == 86400000

\* new Date().toISOString() taken on day n: a string, not a BSON date
IsoString(n) == [type |-> "string", t |-> n * DayMs]
\* a BSON date
BsonDate(n) == [type |-> "date", t |-> n * DayMs]
\* JSON null
JsonNull == [type |-> "null"]

\* new Date() when the advanced handler builds its pipeline
Now == 20 * DayMs

Oid(x) == [oid |-> x]

\* the users collection
UserDocs ==
    { [_id |-> Oid("u1"), email |-> "ann@x", password |-> "pw", name |-> "Ann"],
      [_id |-> Oid("u2"), email |-> "bob@x", name |-> "Bob"] }

Lister == [email |-> "ann@x", name |-> "Ann"]

\* pets as POST /add-pet stores them (created_at an ISO string, the body as
\* posted) and as PATCH /pet-update/:id can leave them (any field replaced by
\* a JSON value)
PetSamples ==
    { [_id |-> 1, category |-> "cat", location |-> <<"A", "b">>, adopted |-> FALSE,
       created_at |-> IsoString(5), added_by |-> Oid("u1")],
      [_id |-> 2, category |-> "cat", adopted |-> FALSE,
       created_at |-> JsonNull, added_by |-> Lister],
      [_id |-> 3, category |-> "cat", location |-> <<"a", "b">>, adopted |-> FALSE,
       created_at |-> IsoString(18), added_by |-> Lister],
      [_id |-> 4, category |-> "dog", location |-> <<"c", "d">>, adopted |-> FALSE,
       created_at |-> IsoString(15), added_by |-> Oid("u1")],
      [_id |-> 5, category |-> "cat", location |-> <<"a", "b">>, adopted |-> TRUE,
       created_at |-> JsonNull, added_by |-> Lister],
      [_id |-> 6, category |-> "cat", location |-> <<"c", "b">>, adopted |-> FALSE,
       created_at |-> JsonNull, added_by |-> Oid("u1")],
      [_id |-> 7, category |-> "cat", location |-> <<"a", "b">>, adopted |-> FALSE,
       created_at |-> JsonNull, added_by |-> Oid("u2")] }

\* collections of up to n distinct pets, in any insertion order
RECURSIVE PetSeqs(_)
PetSeqs(n) ==
    IF n = 0 THEN { <<>> }
    ELSE LET shorter == PetSeqs(n - 1)
         IN  shorter \cup
             { Append(s, d) : s \in { t \in shorter : Len(t) = n - 1 },
                              d \in PetSamples }
InitialPets ==
    { s \in PetSeqs(MaxPets) : \A i, j \in 1..Len(s) : i # j => s[i] # s[j] }

\* ---- req.query of a recommendation request ----
\* categories: one value or a repeated key (an array)
CategoryInputs == { [array |-> FALSE, items |-> <<"cat">>],
                    [array |-> TRUE, items |-> <<"cat", "dog">>] }
DistrictInputs == { <<"a", "b">>, <<".">> }
\* limit: missing, positive, zero
RecLimitInputs == { Undefined, <<"1">>, <<"2">>, <<"0">> }

DefaultRecLimit == 12

\* const categoryArray = Array.isArray(categories) ? categories : [categories]
categoryArray(categories) == { categories.items[i] : i \in 1..Len(categories.items) }

\* const { limit = 12 } = req.query; ... parseInt(limit)
RecLimitOf(limit) ==
    IF limit = Undefined THEN Num(DefaultRecLimit) ELSE parseInt(limit)

\* ---- pipeline stages ----
\* $match of the basic handler
BasicMatch(q, d) ==
    /\ Has(d, "category") /\ d.category \in categoryArray(q.categories)
    /\ Has(d, "location") /\ regexMatch(q.district, d.location)
    /\ Has(d, "adopted") /\ d.adopted = FALSE

\* the advanced $match without the { location: { $exists: false } } branch
AdvancedMatchLocated(q, d) ==
    /\ Has(d, "category") /\ d.category \in categoryArray(q.categories)
    /\ Has(d, "adopted") /\ d.adopted = FALSE
    /\ Has(d, "location") /\ regexMatch(q.district, d.location)

\* $match of the advanced handler
AdvancedMatch(q, d) ==
    /\ Has(d, "category") /\ d.category \in categoryArray(q.categories)
    /\ Has(d, "adopted") /\ d.adopted = FALSE
    /\ \/ Has(d, "location") /\ regexMatch(q.district, d.location)
       \/ ~Has(d, "location")

\* $lookup from users on added_by = _id, as added_by
Lookup(d) ==
    LET found == { u \in UserDocs : Has(d, "added_by") /\ u._id = d.added_by }
    IN  With(d, "added_by", IF found = {} THEN <<>> ELSE <<CHOOSE u \in found : TRUE>>)

\* $unwind of added_by, preserveNullAndEmptyArrays: an empty array drops the field
Unwind(d) ==
    IF d.added_by = <<>> THEN Without(d, {"added_by"})
    ELSE [d EXCEPT !.added_by = d.added_by[1]]

\* a projection that only removes the password of the lister
StripPassword(d) ==
    IF Has(d, "added_by") THEN [d EXCEPT !.added_by = Without(@, {"password"})] ELSE d

\* $project { "added_by.password": 0, "added_by.email": 0 }
StripLister(d) ==
    IF Has(d, "added_by")
    THEN [d EXCEPT !.added_by = Without(@, {"password", "email"})]
    ELSE d

\* the result of evaluating an expression: a number, null, or an error
Ok(v) == [ok |-> TRUE, v |-> v]
Failed == [ok |-> FALSE, v |-> Null]

\* locationScore: $cond on $regexMatch of "$location"; a missing input is no match
LocationScore(q, d) ==
    IF Has(d, "location") /\ regexMatch(q.district, d.location) THEN 10 ELSE 5

\* { $subtract: [new Date(), "$created_at"] }: milliseconds between two dates,
\* null for a missing or null operand, an error for any other type
SubtractFromNow(d) ==
    IF ~Has(d, "created_at") \/ d.created_at.type = "null" THEN Ok(Null)
    ELSE IF d.created_at.type = "date" THEN Ok(Num(Now - d.created_at.t))
    ELSE Failed

\* freshnessScore: 10 - age / 86400000
FreshnessScore(d) ==
    LET age == SubtractFromNow(d)
    IN  IF ~age.ok THEN Failed
        ELSE IF age.v = Null THEN Ok(Null)
        ELSE Ok(Num(10 - (age.v[1] \div DayMs)))

\* totalScore: $add of the two scores, null when one of them is null
TotalScore(q, d) ==
    LET f == FreshnessScore(d)
    IN  IF ~f.ok THEN Failed
        ELSE IF f.v = Null THEN Ok(Null)
        ELSE Ok(Num(LocationScore(q, d) + f.v[1]))

\* the two $addFields stages
AddScores(q, d) ==
    With(With(With(d, "locationScore", Num(LocationScore(q, d))),
              "freshnessScore", FreshnessScore(d).v),
         "totalScore", TotalScore(q, d).v)

\* the closing $project of the advanced handler
StripScores(d) ==
    StripLister(Without(d, {"locationScore", "freshnessScore", "totalScore"}))

\* BSON order of the values sorted on: null and missing first, then numbers,
\* then strings, then dates
TypeRank(type) ==
    CASE type = "null" -> 0 [] type = "number" -> 1 [] type = "string" -> 2
      [] type = "date" -> 3
CreatedKey(d) ==
    IF ~Has(d, "created_at") \/ d.created_at.type = "null"
    THEN [rank |-> 0, v |-> 0]
    ELSE [rank |-> TypeRank(d.created_at.type), v |-> d.created_at.t]
ScoreKey(d) ==
    IF d.totalScore = Null THEN [rank |-> 0, v |-> 0] ELSE [rank |-> 1, v |-> d.totalScore[1]]

KeyLess(a, b) == a.rank < b.rank \/ (a.rank = b.rank /\ a.v < b.v)

\* a sorts strictly before b under { created_at: 1 }
OlderFirst(a, b) == KeyLess(CreatedKey(a), CreatedKey(b))

\* a sorts strictly before b under { created_at: -1 }
NewerFirst(a, b) == KeyLess(CreatedKey(b), CreatedKey(a))

\* a sorts strictly before b under { totalScore: -1, created_at: -1 }
BestFirst(a, b) ==
    \/ KeyLess(ScoreKey(b), ScoreKey(a))
    \/ ScoreKey(a) = ScoreKey(b) /\ NewerFirst(a, b)

\* a sorts strictly before b under the sort specification
Precedes(sortSpec, a, b) ==
    IF sortSpec = "created_at" THEN NewerFirst(a, b) ELSE BestFirst(a, b)

\* $sort: every order of the documents that respects the sort keys; documents
\* with equal keys come in any order
RECURSIVE Sorted(_, _)
Sorted(docs, sortSpec) ==
    IF docs = {} THEN { <<>> }
    ELSE UNION { { <<d>> \o rest : rest \in Sorted(docs \ {d}, sortSpec) } :
                 d \in { m \in docs : \A o \in docs : ~Precedes(sortSpec, o, m) } }

Range(s) == { s[i] : i \in 1..Len(s) }
MapSeq(s, Op(_)) == [i \in 1..Len(s) |-> Op(s[i])]

\* $limit: n
Limit(docs, n) == SubSeq(docs, 1, Min(n, Len(docs)))

\* errors the server answers to the aggregate command
LimitNotPositive == "the limit must be positive"
CantSubtract == "can't $subtract string from date"

\* $limit needs a positive number
LimitRejected(limit) == limit = NaN \/ limit[1] <= 0

\* the pipeline of the basic handler: the candidates just before $sort
BasicCandidates(q) ==
    { StripLister(Unwind(Lookup(d))) : d \in { p \in Range(pets) : BasicMatch(q, p) } }

\* the pipeline of the advanced handler: the candidates just before $sort
AdvancedCandidates(q) ==
    { AddScores(q, Unwind(Lookup(d))) : d \in { p \in Range(pets) : AdvancedMatch(q, p) } }

\* the error of the pipeline sent with $limit n, none when it runs through
PipelineError(q, n) ==
    IF LimitRejected(n) THEN { LimitNotPositive }
    ELSE IF q.mode = "advanced"
            /\ \E p \in Range(pets) : AdvancedMatch(q, p) /\ ~FreshnessScore(p).ok
         THEN { CantSubtract }
    ELSE {}

\* the arrays the aggregation sent with $limit n can answer
Recommendations(q, n) ==
    IF q.mode = "basic"
    THEN { Limit(s, n) : s \in Sorted(BasicCandidates(q), "created_at") }
    ELSE { MapSeq(Limit(s, n), StripScores) :
              s \in Sorted(AdvancedCandidates(q), "totalScore") }

FetchFailed == "Failed to fetch recommendations"

OkResponse(list) ==
    [status |-> 200, list |-> <<list>>, error |-> Null, message |-> Null]
ErrorResponse(message) ==
    [status |-> 500, list |-> Null, error |-> Num(FetchFailed), message |-> Num(message)]

\* lines 6-52, 65-153: a request arrives; the handler reads req.query, builds
\* the pipeline and sends the aggregation
RecArrive(modes, categories, districts, limits) ==
    /\ rpc = "idle"
    /\ \E m \in modes, c \in categories, d \in districts, l \in limits :
          /\ rquery' = [mode |-> m, categories |-> c, district |-> d, limit |-> l]
          /\ ragg' = [ragg EXCEPT !.count = @ + 1, !.limit = RecLimitOf(l)]
    /\ rpc' = "aggregate"
    /\ UNCHANGED <<pets, rresp, pageVars, webVars, appVars>>

RecModes == { "basic", "advanced" }

RecRequest == RecArrive(RecModes, CategoryInputs, DistrictInputs, RecLimitInputs)

\* lines 54, 155: the aggregation answers; res.status(200).json(recommendations)
RecRespond ==
    /\ rpc = "aggregate"
    /\ PipelineError(rquery, ragg.limit) = {}
    /\ \E list \in Recommendations(rquery, ragg.limit[1]) : rresp' = Append(rresp, OkResponse(list))
    /\ rpc' = "done"
    /\ UNCHANGED <<pets, rquery, ragg, pageVars, webVars, appVars>>

\* a catch block that answers an empty list
RecFailSilently ==
    /\ rpc = "aggregate"
    /\ \E e \in StoreFaults \cup PipelineError(rquery, ragg.limit) :
          /\ ragg' = [ragg EXCEPT !.error = Num(e)]
          /\ rresp' = Append(rresp, OkResponse(<<>>))
    /\ rpc' = "done"
    /\ UNCHANGED <<pets, rquery, pageVars, webVars, appVars>>

\* lines 55-61, 156-162: the aggregation rejects, by an outage or because the
\* server refuses the pipeline; the catch block answers 500
RecFail ==
    /\ rpc = "aggregate"
    /\ \E e \in StoreFaults \cup PipelineError(rquery, ragg.limit) :
          /\ ragg' = [ragg EXCEPT !.error = Num(e)]
          /\ rresp' = Append(rresp, ErrorResponse(e))
    /\ rpc' = "done"
    /\ UNCHANGED <<pets, rquery, pageVars, webVars, appVars>>

InitRec ==
    /\ store = <<>>
    /\ writes = 0
    /\ CallsIdle(Calls)
    /\ pets \in InitialPets
    /\ RecIdle
    /\ WebIdle
    /\ AppIdle

NextRec ==
    \/ RecRequest
    \/ RecRespond
    \/ RecFail

SpecRec == InitRec /\ [][NextRec]_vars

\* ---- HTTP endpoints that use the paginator ----
AllPets == "GET /all-pets"
CategoryPets == "GET /category-pets"
DonationCampaigns == "GET /donation-campaigns"
PagedEndpoints == { AllPets, CategoryPets, DonationCampaigns }

\* the endpoints whose handler awaits the paginator inside try/catch
Guarded == { CategoryPets }

\* the filter the handler hands to paginateCollection; the documents of the
\* sample are all of the category /category-pets asks for
FilterOf(endpoint) == IF endpoint = DonationCampaigns THEN NoFilter ELSE AvailableFilter

\* what Express does with the rejected promise of an async handler: version 4
\* leaves it unhandled and sends nothing, version 5 forwards it to the default
\* error handler, which answers 500
RejectionOutcomes == { "unhandled", "forwarded" }

\* a GET arrives; the handler builds its filter and calls paginateCollection
HttpGet(r) ==
    /\ hpc[r] = "idle"
    /\ pc[r] = "idle"
    /\ \E ep \in PagedEndpoints, l \in LimitInputs, c \in CursorInputs :
          /\ hreq' = [hreq EXCEPT ![r] = [endpoint |-> ep, token |-> NoToken, user |-> Null]]
          /\ Start(r, [limit |-> l, cursor |-> c, filter |-> FilterOf(ep)])
    /\ hpc' = [hpc EXCEPT ![r] = "handler"]
    /\ hlog' = [hlog EXCEPT ![r] = Append(@, "handler")]
    /\ UNCHANGED <<prev, hresp, recVars, appVars>>

\* GET /category-pets without category: 400, the paginator is not called
HttpBadRequest(r) ==
    /\ hpc[r] = "idle"
    /\ pc[r] = "idle"
    /\ hreq' = [hreq EXCEPT ![r] = [endpoint |-> CategoryPets, token |-> NoToken, user |-> Null]]
    /\ hpc' = [hpc EXCEPT ![r] = "done"]
    /\ hlog' = [hlog EXCEPT ![r] = Append(@, "handler")]
    /\ hresp' = [hresp EXCEPT ![r] = Append(@, 400)]
    /\ UNCHANGED <<pageVars, recVars, appVars>>

\* the page came back: res.send({ ... })
HttpSend(r) ==
    /\ hpc[r] = "handler"
    /\ pc[r] = "done"
    /\ hresp' = [hresp EXCEPT ![r] = Append(@, 200)]
    /\ hpc' = [hpc EXCEPT ![r] = "done"]
    /\ UNCHANGED <<hreq, hlog, pageVars, recVars, appVars>>

\* the paginator threw inside try/catch: res.status(500).send({ ... })
HttpCatch(r) ==
    /\ hpc[r] = "handler"
    /\ pc[r] = "failed"
    /\ hreq[r].endpoint \in Guarded
    /\ hresp' = [hresp EXCEPT ![r] = Append(@, 500)]
    /\ hpc' = [hpc EXCEPT ![r] = "done"]
    /\ UNCHANGED <<hreq, hlog, pageVars, recVars, appVars>>

\* the paginator threw in a handler without try/catch: the handler's promise
\* rejects
HttpReject(r) ==
    /\ hpc[r] = "handler"
    /\ pc[r] = "failed"
    /\ hreq[r].endpoint \notin Guarded
    /\ \E o \in RejectionOutcomes :
          IF o = "forwarded"
          THEN /\ hresp' = [hresp EXCEPT ![r] = Append(@, 500)]
               /\ hpc' = [hpc EXCEPT ![r] = "done"]
          ELSE /\ hresp' = hresp
               /\ hpc' = [hpc EXCEPT ![r] = "rejected"]
    /\ UNCHANGED <<hreq, hlog, pageVars, recVars, appVars>>

InitHttp ==
    /\ store \in InitialStores
    /\ writes = 0
    /\ CallsIdle(Calls)
    /\ pets = <<>>
    /\ RecIdle
    /\ WebIdle
    /\ AppIdle

NextHttp ==
    \/ \E r \in Calls : HttpGet(r)
    \/ \E r \in Calls : HttpBadRequest(r)
    \/ \E r \in Calls : Count(r)
    \/ \E r \in Calls : CountFail(r)
    \/ \E r \in Calls : Fetch(r)
    \/ \E r \in Calls : FetchFail(r)
    \/ \E r \in Calls : HttpSend(r)
    \/ \E r \in Calls : HttpCatch(r)
    \/ \E r \in Calls : HttpReject(r)

\* the event loop runs every callback that is ready
SpecHttpFair == InitHttp /\ [][NextHttp]_vars /\ WF_vars(NextHttp)

\* ---- verifyToken and the endpoints behind it ----
AddPet == "POST /add-pet"
DeleteMyPet == "DELETE /dashboard/my-added-pets/:id"
MyAddedPets == "GET /dashboard/my-added-pets/:email"
ProtectedEndpoints == { AddPet, DeleteMyPet, MyAddedPets }

Cookie(value, key, expired) ==
    [cookie |-> TRUE, value |-> value, key |-> key, expired |-> expired]

\* token cookies: none, empty, not a JWT, signed with another secret, expired,
\* good
TokenInputs ==
    { NoToken,
      Cookie("", "", FALSE),
      Cookie("garbage", "", FALSE),
      Cookie("jwt", "other", FALSE),
      Cookie("jwt", "server", TRUE),
      Cookie("jwt", "server", FALSE) }

\* jwt.verify(token, secret, callback): the err handed to the callback, null
\* for an unexpired token signed with the server's secret
jwtVerify(token) ==
    IF token.value # "jwt" THEN Num("jwt malformed")
    ELSE IF token.key # "server" THEN Num("invalid signature")
    ELSE IF token.expired THEN Num("jwt expired")
    ELSE Null

\* if (!token)
TokenMissing(token) == ~token.cookie \/ token.value = ""

\* a request for a protected endpoint arrives; Express calls verifyToken first
AuthRequest(r) ==
    /\ hpc[r] = "idle"
    /\ \E ep \in ProtectedEndpoints, t \in TokenInputs :
          hreq' = [hreq EXCEPT ![r] = [endpoint |-> ep, token |-> t, user |-> Null]]
    /\ hpc' = [hpc EXCEPT ![r] = "verifyToken"]
    /\ UNCHANGED <<hlog, hresp, pageVars, recVars, appVars>>

\* a verifyToken that answers 401 and goes on to next() all the same
VerifyTokenForward(r) ==
    /\ hpc[r] = "verifyToken"
    /\ TokenMissing(hreq[r].token) \/ jwtVerify(hreq[r].token) # Null
    /\ hresp' = [hresp EXCEPT ![r] = Append(@, 401)]
    /\ hlog' = [hlog EXCEPT ![r] = Append(@, "verifyToken")]
    /\ hpc' = [hpc EXCEPT ![r] = "handler"]
    /\ UNCHANGED <<hreq, pageVars, recVars, appVars>>

\* verifyToken: no token, or jwt.verify hands an err to the callback: 401
VerifyTokenReject(r) ==
    /\ hpc[r] = "verifyToken"
    /\ TokenMissing(hreq[r].token) \/ jwtVerify(hreq[r].token) # Null
    /\ hresp' = [hresp EXCEPT ![r] = Append(@, 401)]
    /\ hlog' = [hlog EXCEPT ![r] = Append(@, "verifyToken")]
    /\ hpc' = [hpc EXCEPT ![r] = "done"]
    /\ UNCHANGED <<hreq, pageVars, recVars, appVars>>

\* verifyToken: req.user = decoded; next()
VerifyTokenPass(r) ==
    /\ hpc[r] = "verifyToken"
    /\ ~TokenMissing(hreq[r].token)
    /\ jwtVerify(hreq[r].token) = Null
    /\ hreq' = [hreq EXCEPT ![r].user = Num("ann@x")]
    /\ hlog' = [hlog EXCEPT ![r] = Append(@, "verifyToken")]
    /\ hpc' = [hpc EXCEPT ![r] = "handler"]
    /\ UNCHANGED <<hresp, pageVars, recVars, appVars>>

\* the endpoint's handler: insertOne, deleteOne (of a document or of none), or
\* a read
Handler(r) ==
    /\ hpc[r] = "handler"
    /\ CASE hreq[r].endpoint = AddPet ->
              /\ \E a \in BOOLEAN : store' = Append(store, Doc(FreshId, a))
              /\ writes' = writes + 1
         [] hreq[r].endpoint = DeleteMyPet ->
              \E i \in 0..Len(store) :
                  /\ store' = SubSeq(store, 1, i - 1) \o SubSeq(store, i + 1, Len(store))
                  /\ writes' = IF i = 0 THEN writes ELSE writes + 1
         [] hreq[r].endpoint = MyAddedPets ->
              UNCHANGED <<store, writes>>
    /\ hlog' = [hlog EXCEPT ![r] = Append(@, "handler")]
    /\ hresp' = [hresp EXCEPT ![r] = Append(@, 200)]
    /\ hpc' = [hpc EXCEPT ![r] = "done"]
    /\ UNCHANGED <<hreq, callVars, recVars, appVars>>

InitAuth ==
    /\ store \in InitialStores
    /\ writes = 0
    /\ CallsIdle(Calls)
    /\ pets = <<>>
    /\ RecIdle
    /\ WebIdle
    /\ AppIdle

NextAuth ==
    \/ \E r \in Reqs : AuthRequest(r)
    \/ \E r \in Reqs : VerifyTokenReject(r)
    \/ \E r \in Reqs : VerifyTokenPass(r)
    \/ \E r \in Reqs : Handler(r)

SpecAuth == InitAuth /\ [][NextAuth]_vars

\* ---- concurrent calls against a store that nobody writes ----
Callers == { 1, 2 }

\* paging inputs of the concurrent calls: defaults, a page size, a cursor
ConcLimitInputs == { Undefined, <<"2">> }
ConcCursorInputs == { Undefined, <<"1">> }

ConcCall(r) ==
    /\ pc[r] = "idle"
    /\ \E l \in ConcLimitInputs, c \in ConcCursorInputs, f \in Filters :
          Start(r, [limit |-> l, cursor |-> c, filter |-> f])
    /\ UNCHANGED <<prev, recVars, webVars, appVars>>

\* a recommendation request that arrives while the paginator calls run
ConcRecRequest ==
    RecArrive(RecModes, { [array |-> FALSE, items |-> <<"cat">>] }, { <<".">> }, { Undefined })

\* listings whose created_at was replaced by null, two with a location
ConcPets ==
    LET Pet(i) == CHOOSE p \in PetSamples : p._id = i
    IN  <<Pet(2), Pet(6), Pet(7)>>

InitConc ==
    /\ store \in InitialStores
    /\ writes = 0
    /\ CallsIdle(Callers)
    /\ pets = ConcPets
    /\ RecIdle
    /\ WebIdle
    /\ AppIdle

NextConc ==
    \/ \E r \in Callers : ConcCall(r)
    \/ \E r \in Callers : Count(r)
    \/ \E r \in Callers : CountFail(r)
    \/ \E r \in Callers : Fetch(r)
    \/ \E r \in Callers : FetchFail(r)
    \/ ConcRecRequest
    \/ RecRespond
    \/ RecFail

SpecConc == InitConc /\ [][NextConc]_vars

\* ---- the application endpoints: common parts ----
\* emails of callers and of users; "cat@x" is not stored at the start
Emails == { "ann@x", "bob@x", "cat@x" }

\* insertOne: the _id the driver generates, not in the collection yet
NewId(coll) ==
    CHOOSE n \in 1..(Cardinality(coll) + 1) : \A d \in coll : d._id # n

\* findOne(filter) over the documents matching the filter: null, or one of
\* them (the server promises no order)
findOne(matching) == IF matching = {} THEN { Null } ELSE { <<d>> : d \in matching }

\* new Date().toISOString() at the time of a write, and an earlier time
Then == "then"
Today == "now"

\* the request t ends with a status
Answer(t, status) == [task EXCEPT ![t].pc = "done", ![t].status = status]

NewTask(endpoint, caller, email, id, body, at) ==
    [endpoint |-> endpoint, caller |-> caller, email |-> email, id |-> id,
     body |-> body, pc |-> at, local |-> Null, status |-> 0]

\* ---- users: POST /user, PATCH /user/profile/:email, admin endpoints ----
PostUser == "POST /user"
PatchProfile == "PATCH /user/profile/:email"
RoleUpdate == "PATCH /user/role-update/:email"
AllUsers == "GET /all-users"
AdminDeletePet == "DELETE /admin/all-pets/:id"
AdminAdoptStatusUpdate == "PATCH /admin/adopt-status-update/:id"
AdminEndpoints == { RoleUpdate, AllUsers, AdminDeletePet, AdminAdoptStatusUpdate }

UserDoc(id, email, role) ==
    [_id |-> id, email |-> email, role |-> role, name |-> "n0", profilepic |-> "p0",
     created_at |-> Then, last_loggedIn |-> Then]

\* an admin (roles are seeded in the database) and a user
InitialUsers == { UserDoc(1, "ann@x", "admin"), UserDoc(2, "bob@x", "user") }

AdminPet == [_id |-> 1, adopted |-> FALSE, added_by |-> [email |-> "bob@x"]]

\* req.body: fields that are present, <<>> for a missing one
UserBody(name, role) == [name |-> name, role |-> role]

PostUserArrive(t) ==
    /\ task[t].pc = "idle"
    /\ \E e \in Emails, role \in { Null, <<"admin">> } :
          task' = [task EXCEPT ![t] = NewTask(PostUser, "", e, 0, UserBody(<<"n0">>, role), "handler")]
    /\ UNCHANGED <<db, pageVars, recVars, webVars>>

PatchProfileArrive(t) ==
    /\ task[t].pc = "idle"
    /\ \E c \in { "bob@x", "cat@x" }, e \in { "bob@x", "cat@x" }, name \in { Null, <<"n1">> } :
          task' = [task EXCEPT ![t] =
                      NewTask(PatchProfile, c, e, 0, UserBody(name, <<"admin">>), "verify")]
    /\ UNCHANGED <<db, pageVars, recVars, webVars>>

RoleUpdateArrive(t) ==
    /\ task[t].pc = "idle"
    /\ \E c \in Emails, e \in { "ann@x", "bob@x" }, role \in { "admin", "user" } :
          task' = [task EXCEPT ![t] =
                      NewTask(RoleUpdate, c, e, 0, UserBody(Null, <<role>>), "verify")]
    /\ UNCHANGED <<db, pageVars, recVars, webVars>>

AllUsersArrive(t) ==
    /\ task[t].pc = "idle"
    /\ \E c \in Emails :
          task' = [task EXCEPT ![t] = NewTask(AllUsers, c, "", 0, UserBody(Null, Null), "verify")]
    /\ UNCHANGED <<db, pageVars, recVars, webVars>>

AdminDeletePetArrive(t) ==
    /\ task[t].pc = "idle"
    /\ \E c \in Emails, id \in { 1, 2 } :
          task' = [task EXCEPT ![t] =
                      NewTask(AdminDeletePet, c, "", id, UserBody(Null, Null), "verify")]
    /\ UNCHANGED <<db, pageVars, recVars, webVars>>

\* a verifyAdmin that lets every stored user through
verifyAnyUser(t) ==
    /\ task[t].pc = "verify"
    /\ task[t].endpoint \in AdminEndpoints
    /\ \E user \in findOne({ u \in db.users : u.email = task[t].caller }) :
          IF user = Null
          THEN task' = Answer(t, 403)
          ELSE task' = [task EXCEPT ![t].pc = "handler"]
    /\ UNCHANGED <<db, pageVars, recVars, webVars>>

\* verifyAdmin: 403 unless the user found by the token's email has role admin
verifyAdmin(t) ==
    /\ task[t].pc = "verify"
    /\ task[t].endpoint \in AdminEndpoints
    /\ \E user \in findOne({ u \in db.users : u.email = task[t].caller }) :
          IF user = Null \/ user[1].role # "admin"
          THEN task' = Answer(t, 403)
          ELSE task' = [task EXCEPT ![t].pc = "handler"]
    /\ UNCHANGED <<db, pageVars, recVars, webVars>>

\* verifyUserOrAdmin: 403 unless the user found has role user or admin
verifyUserOrAdmin(t) ==
    /\ task[t].pc = "verify"
    /\ task[t].endpoint # ""
    /\ task[t].endpoint \notin AdminEndpoints
    /\ \E user \in findOne({ u \in db.users : u.email = task[t].caller }) :
          IF user = Null \/ (user[1].role # "user" /\ user[1].role # "admin")
          THEN task' = Answer(t, 403)
          ELSE task' = [task EXCEPT ![t].pc = "handler"]
    /\ UNCHANGED <<db, pageVars, recVars, webVars>>

\* POST /user: const userExists = await usersCollection.findOne(query)
PostUserFind(t) ==
    /\ task[t].pc = "handler"
    /\ task[t].endpoint = PostUser
    /\ \E found \in findOne({ u \in db.users : u.email = task[t].email }) :
          task' = [task EXCEPT ![t].pc = "found", ![t].local = found]
    /\ UNCHANGED <<db, pageVars, recVars, webVars>>

\* POST /user, the user exists: updateOne sets last_loggedIn of one match
PostUserUpdate(t) ==
    /\ task[t].pc = "found"
    /\ task[t].endpoint = PostUser
    /\ task[t].local # Null
    /\ LET matching == { u \in db.users : u.email = task[t].email }
       IN  IF matching = {} THEN db' = db
           ELSE \E u \in matching :
                   db' = [db EXCEPT !.users =
                             (@ \ { u }) \cup { [u EXCEPT !.last_loggedIn = Today] }]
    /\ task' = Answer(t, 200)
    /\ UNCHANGED <<pageVars, recVars, webVars>>

\* an insert that stores the role of the request body
PostUserInsertAsPosted(t) ==
    /\ task[t].pc = "found"
    /\ task[t].endpoint = PostUser
    /\ task[t].local = Null
    /\ db' = [db EXCEPT !.users =
                 @ \cup { [_id |-> NewId(@), email |-> task[t].email,
                           role |-> IF task[t].body.role = Null THEN "user"
                                    ELSE task[t].body.role[1],
                           name |-> task[t].body.name[1], profilepic |-> "p0",
                           created_at |-> Today, last_loggedIn |-> Today] }]
    /\ task' = Answer(t, 200)
    /\ UNCHANGED <<pageVars, recVars, webVars>>

\* POST /user, no user was found: insertOne(userData) with role "user"
PostUserInsert(t) ==
    /\ task[t].pc = "found"
    /\ task[t].endpoint = PostUser
    /\ task[t].local = Null
    /\ db' = [db EXCEPT !.users =
                 @ \cup { [_id |-> NewId(@), email |-> task[t].email, role |-> "user",
                           name |-> task[t].body.name[1], profilepic |-> "p0",
                           created_at |-> Today, last_loggedIn |-> Today] }]
    /\ task' = Answer(t, 200)
    /\ UNCHANGED <<pageVars, recVars, webVars>>

\* PATCH /user/profile/:email: $set of the allowed fields and last_updated
PatchProfileUpdate(t) ==
    /\ task[t].pc = "handler"
    /\ task[t].endpoint = PatchProfile
    /\ LET matching == { u \in db.users : u.email = task[t].email }
       IN  IF task[t].body.name = Null
           THEN db' = db /\ task' = Answer(t, 400)
           ELSE IF matching = {}
           THEN db' = db /\ task' = Answer(t, 404)
           ELSE /\ \E u \in matching :
                      db' = [db EXCEPT !.users =
                                (@ \ { u }) \cup
                                { With(With(u, "name", task[t].body.name[1]),
                                       "last_updated", Today) }]
                /\ task' = Answer(t, 200)
    /\ UNCHANGED <<pageVars, recVars, webVars>>

\* PATCH /user/role-update/:email: updateOne({ email }, { $set: { role } })
RoleUpdateSet(t) ==
    /\ task[t].pc = "handler"
    /\ task[t].endpoint = RoleUpdate
    /\ LET matching == { u \in db.users : u.email = task[t].email }
       IN  IF matching = {} THEN db' = db
           ELSE \E u \in matching :
                   db' = [db EXCEPT !.users =
                             (@ \ { u }) \cup { [u EXCEPT !.role = task[t].body.role[1]] }]
    /\ task' = Answer(t, 200)
    /\ UNCHANGED <<pageVars, recVars, webVars>>

\* GET /all-users: find(filter).toArray()
AllUsersRead(t) ==
    /\ task[t].pc = "handler"
    /\ task[t].endpoint = AllUsers
    /\ task' = Answer(t, 200)
    /\ UNCHANGED <<db, pageVars, recVars, webVars>>

\* DELETE /admin/all-pets/:id: deleteOne({ _id }), 404 when nothing was deleted
AdminDeletePetRun(t) ==
    /\ task[t].pc = "handler"
    /\ task[t].endpoint = AdminDeletePet
    /\ LET matching == { p \in db.allPets : p._id = task[t].id }
       IN  /\ db' = [db EXCEPT !.allPets = @ \ matching]
           /\ task' = Answer(t, IF matching = {} THEN 404 ELSE 200)
    /\ UNCHANGED <<pageVars, recVars, webVars>>

InitUsers ==
    /\ store = <<>>
    /\ writes = 0
    /\ CallsIdle(Calls)
    /\ pets = <<>>
    /\ RecIdle
    /\ WebIdle
    /\ db = [EmptyDb EXCEPT !.users = InitialUsers, !.allPets = { AdminPet }]
    /\ task = [t \in Tasks |-> NoTask]

NextUsers ==
    \/ \E t \in Tasks : PostUserArrive(t)
    \/ \E t \in Tasks : PatchProfileArrive(t)
    \/ \E t \in Tasks : RoleUpdateArrive(t)
    \/ \E t \in Tasks : AllUsersArrive(t)
    \/ \E t \in Tasks : AdminDeletePetArrive(t)
    \/ \E t \in Tasks : verifyAdmin(t)
    \/ \E t \in Tasks : verifyUserOrAdmin(t)
    \/ \E t \in Tasks : PostUserFind(t)
    \/ \E t \in Tasks : PostUserUpdate(t)
    \/ \E t \in Tasks : PostUserInsert(t)
    \/ \E t \in Tasks : PatchProfileUpdate(t)
    \/ \E t \in Tasks : RoleUpdateSet(t)
    \/ \E t \in Tasks : AllUsersRead(t)
    \/ \E t \in Tasks : AdminDeletePetRun(t)

SpecUsers == InitUsers /\ [][NextUsers]_vars

\* ---- reviews: POST /submit-review ----
SubmitReview == "POST /submit-review"

ReviewDoc(id, userEmail) ==
    [_id |-> id, userEmail |-> userEmail, rating |-> 5, status |-> "active",
     created_at |-> Then]

\* the reviews collection at the start: empty, or one review of ann
InitialReviews == { {}, { ReviewDoc(1, "ann@x") } }

\* reviewsCollection.findOne({ userEmail, status: "active" })
ActiveReviews(userEmail) ==
    { r \in db.reviews : r.userEmail = userEmail /\ r.status = "active" }

SubmitReviewArrive(t) ==
    /\ task[t].pc = "idle"
    /\ \E c \in Emails, e \in { "ann@x", "bob@x" }, rating \in { Null, <<5>> } :
          task' = [task EXCEPT ![t] = NewTask(SubmitReview, c, e, 0, [rating |-> rating], "verify")]
    /\ UNCHANGED <<db, pageVars, recVars, webVars>>

\* the body is validated; const existingReview = await findOne(...)
SubmitReviewCheck(t) ==
    /\ task[t].pc = "handler"
    /\ task[t].endpoint = SubmitReview
    /\ IF task[t].body.rating = Null
       THEN task' = Answer(t, 400)
       ELSE \E found \in findOne(ActiveReviews(task[t].email)) :
               task' = [task EXCEPT ![t].pc = "found", ![t].local = found]
    /\ UNCHANGED <<db, pageVars, recVars, webVars>>

\* if (existingReview) return res.status(409)
SubmitReviewConflict(t) ==
    /\ task[t].pc = "found"
    /\ task[t].endpoint = SubmitReview
    /\ task[t].local # Null
    /\ task' = Answer(t, 409)
    /\ UNCHANGED <<db, pageVars, recVars, webVars>>

\* review.status = "active"; insertOne(review)
SubmitReviewInsert(t) ==
    /\ task[t].pc = "found"
    /\ task[t].endpoint = SubmitReview
    /\ task[t].local = Null
    /\ db' = [db EXCEPT !.reviews =
                 @ \cup { [_id |-> NewId(@), userEmail |-> task[t].email,
                           rating |-> task[t].body.rating[1], status |-> "active",
                           created_at |-> Today] }]
    /\ task' = Answer(t, 200)
    /\ UNCHANGED <<pageVars, recVars, webVars>>

InitReviews ==
    /\ store = <<>>
    /\ writes = 0
    /\ CallsIdle(Calls)
    /\ pets = <<>>
    /\ RecIdle
    /\ WebIdle
    /\ \E reviews \in InitialReviews :
          db = [EmptyDb EXCEPT !.users = InitialUsers, !.reviews = reviews]
    /\ task = [t \in Tasks |-> NoTask]

NextReviews ==
    \/ \E t \in Tasks : SubmitReviewArrive(t)
    \/ \E t \in Tasks : verifyUserOrAdmin(t)
    \/ \E t \in Tasks : SubmitReviewCheck(t)
    \/ \E t \in Tasks : SubmitReviewConflict(t)
    \/ \E t \in Tasks : SubmitReviewInsert(t)

SpecReviews == InitReviews /\ [][NextReviews]_vars

\* ---- donations: POST /recieved-donation, DELETE /dashboard/donation-delete/:id ----
RecievedDonation == "POST /recieved-donation"
DonationDelete == "DELETE /dashboard/donation-delete/:id"

\* ObjectId.isValid(id); 0 stands for a string that is no ObjectId
isValid(id) == id # 0

\* $group: { total: { $sum: "$amount_donated" } } over a set of donations
RECURSIVE SumAmounts(_)
SumAmounts(donations) ==
    IF donations = {} THEN 0
    ELSE LET d == CHOOSE x \in donations : TRUE
         IN  d.amount_donated + SumAmounts(donations \ { d })

DonationsOf(campaign_id) ==
    { d \in db.recievedDonationCollection : d.campaign_id = campaign_id }

\* a campaign as POST /dashboard/create-donation-campaign stores it, and the
\* same campaign after a donation of 2 by bob
InitialDonations ==
    { [campaigns |-> { [_id |-> 1, paused |-> FALSE] }, donations |-> {}],
      [campaigns |-> { [_id |-> 1, paused |-> FALSE, total_donations |-> 2] },
       donations |-> { [_id |-> 1, campaign_id |-> 1, amount_donated |-> 2,
                        email |-> "bob@x"] }] }

RecievedDonationArrive(t) ==
    /\ task[t].pc = "idle"
    /\ \E c \in Emails, campaign \in { 0, 1 }, amount \in { 1, 2 } :
          task' = [task EXCEPT ![t] =
                      NewTask(RecievedDonation, c, c, campaign, [amount_donated |-> amount], "verify")]
    /\ UNCHANGED <<db, pageVars, recVars, webVars>>

DonationDeleteArrive(t) ==
    /\ task[t].pc = "idle"
    /\ \E c \in Emails, id \in { 0, 1, 2 } :
          task' = [task EXCEPT ![t] =
                      NewTask(DonationDelete, c, "", id, [amount_donated |-> 0], "verify")]
    /\ UNCHANGED <<db, pageVars, recVars, webVars>>

\* the body is validated; insertOne(donationDoc)
RecievedDonationInsert(t) ==
    /\ task[t].pc = "handler"
    /\ task[t].endpoint = RecievedDonation
    /\ IF ~isValid(task[t].id)
       THEN db' = db /\ task' = Answer(t, 400)
       ELSE /\ db' = [db EXCEPT !.recievedDonationCollection =
                         @ \cup { [_id |-> NewId(@), campaign_id |-> task[t].id,
                                   amount_donated |-> task[t].body.amount_donated,
                                   email |-> task[t].email] }]
            /\ task' = [task EXCEPT ![t].pc = "inserted"]
    /\ UNCHANGED <<pageVars, recVars, webVars>>

\* the aggregation sums the donations of the campaign
RecievedDonationSum(t) ==
    /\ task[t].pc = "inserted"
    /\ task[t].endpoint = RecievedDonation
    /\ task' = [task EXCEPT ![t].pc = "summed",
                            ![t].local = Num(SumAmounts(DonationsOf(task[t].id)))]
    /\ UNCHANGED <<db, pageVars, recVars, webVars>>

\* updateOne({ _id }, { $set: { total_donations: totalDonations } })
RecievedDonationUpdate(t) ==
    /\ task[t].pc = "summed"
    /\ task[t].endpoint = RecievedDonation
    /\ db' = [db EXCEPT !.donationsCollection =
                 { IF c._id = task[t].id
                   THEN With(c, "total_donations", task[t].local[1]) ELSE c : c \in @ }]
    /\ task' = Answer(t, 200)
    /\ UNCHANGED <<pageVars, recVars, webVars>>

\* deleteOne({ _id, email: userEmail }); 404 when nothing was deleted
DonationDeleteRun(t) ==
    /\ task[t].pc = "handler"
    /\ task[t].endpoint = DonationDelete
    /\ IF ~isValid(task[t].id)
       THEN db' = db /\ task' = Answer(t, 400)
       ELSE LET matching == { d \in db.recievedDonationCollection :
                                 d._id = task[t].id /\ d.email = task[t].caller }
            IN  /\ db' = [db EXCEPT !.recievedDonationCollection = @ \ matching]
                /\ task' = Answer(t, IF matching = {} THEN 404 ELSE 200)
    /\ UNCHANGED <<pageVars, recVars, webVars>>

InitDonations ==
    /\ store = <<>>
    /\ writes = 0
    /\ CallsIdle(Calls)
    /\ pets = <<>>
    /\ RecIdle
    /\ WebIdle
    /\ \E i \in InitialDonations :
          db = [EmptyDb EXCEPT !.users = InitialUsers,
                               !.donationsCollection = i.campaigns,
                               !.recievedDonationCollection = i.donations]
    /\ task = [t \in Tasks |-> NoTask]

NextDonations ==
    \/ \E t \in Tasks : RecievedDonationArrive(t)
    \/ \E t \in Tasks : DonationDeleteArrive(t)
    \/ \E t \in Tasks : verifyUserOrAdmin(t)
    \/ \E t \in Tasks : RecievedDonationInsert(t)
    \/ \E t \in Tasks : RecievedDonationSum(t)
    \/ \E t \in Tasks : RecievedDonationUpdate(t)
    \/ \E t \in Tasks : DonationDeleteRun(t)

SpecDonations == InitDonations /\ [][NextDonations]_vars

\* ---- adoption: requests, status updates, deletion of a pet ----
AdoptRequest == "POST /adopt-request"
AdoptionRequestUpdate == "PATCH /adoption-request-update/:id"
AdoptStatusUpdate == "PATCH /adopt-status-update/:id"

PetDoc(id, email) == [_id |-> id, adopted |-> FALSE, added_by |-> [email |-> email]]

\* ObjectIds are unique across collections: the _id of the n-th adoption
\* request
RequestId(n) == 10 + n

RequestDoc(id, pet_id, user_email) ==
    [_id |-> id, pet_id |-> pet_id, user_email |-> user_email,
     adopted |-> FALSE, adoption_status |-> "pending"]

\* a pet of bob and a pet of ann
InitialAdoptPets == { PetDoc(1, "bob@x"), PetDoc(2, "ann@x") }

\* no request yet, or ann's pending request for bob's pet
InitialRequests == { {}, { RequestDoc(RequestId(1), 1, "ann@x") } }

\* req.body of the status endpoints
StatusBody(adopted, adoption_status) ==
    [adopted |-> adopted, adoption_status |-> adoption_status]

\* $set over the documents of a collection that satisfy the filter
SetWhere(coll, hit(_), change(_)) == { IF hit(d) THEN change(d) ELSE d : d \in coll }

AdoptRequestArrive(t) ==
    /\ task[t].pc = "idle"
    /\ \E c \in { "ann@x", "bob@x" }, pet_id \in { 0, 1, 2 } :
          task' = [task EXCEPT ![t] =
                      NewTask(AdoptRequest, c, c, pet_id, StatusBody(FALSE, Null), "verify")]
    /\ UNCHANGED <<db, pageVars, recVars, webVars>>

AdoptionRequestUpdateArrive(t) ==
    /\ task[t].pc = "idle"
    /\ \E c \in { "ann@x", "bob@x" }, id \in { RequestId(1), RequestId(2) },
          status \in { "accepted", "rejected" } :
          task' = [task EXCEPT ![t] =
                      NewTask(AdoptionRequestUpdate, c, "", id, StatusBody(FALSE, <<status>>), "verify")]
    /\ UNCHANGED <<db, pageVars, recVars, webVars>>

AdoptStatusUpdateArrive(t) ==
    /\ task[t].pc = "idle"
    /\ \E c \in { "ann@x", "bob@x" }, id \in { 1, 2 }, adopted \in BOOLEAN :
          task' = [task EXCEPT ![t] =
                      NewTask(AdoptStatusUpdate, c, "", id, StatusBody(adopted, Null), "verify")]
    /\ UNCHANGED <<db, pageVars, recVars, webVars>>

AdminAdoptStatusUpdateArrive(t) ==
    /\ task[t].pc = "idle"
    /\ \E c \in { "ann@x", "bob@x" }, adopted \in BOOLEAN,
          status \in { Null, <<"accepted">>, <<"rejected">> } :
          task' = [task EXCEPT ![t] =
                      NewTask(AdminAdoptStatusUpdate, c, "", 1, StatusBody(adopted, status), "verify")]
    /\ UNCHANGED <<db, pageVars, recVars, webVars>>

DeleteMyPetArrive(t) ==
    /\ task[t].pc = "idle"
    /\ \E c \in Emails, id \in { 0, 1, 2 } :
          task' = [task EXCEPT ![t] =
                      NewTask(DeleteMyPet, c, "", id, StatusBody(FALSE, Null), "verify")]
    /\ UNCHANGED <<db, pageVars, recVars, webVars>>

\* POST /adopt-request: insertOne with adopted false, adoption_status pending
AdoptRequestInsert(t) ==
    /\ task[t].pc = "handler"
    /\ task[t].endpoint = AdoptRequest
    /\ IF task[t].id = 0
       THEN db' = db /\ task' = Answer(t, 400)
       ELSE /\ db' = [db EXCEPT !.adoptRequests =
                         @ \cup { RequestDoc(RequestId(NewId({ [_id |-> r._id - 10] : r \in @ })),
                                             task[t].id, task[t].email) }]
            /\ task' = Answer(t, 200)
    /\ UNCHANGED <<pageVars, recVars, webVars>>

\* PATCH /adoption-request-update/:id: const requestDoc = await findOne(filter)
AdoptionRequestFind(t) ==
    /\ task[t].pc = "handler"
    /\ task[t].endpoint = AdoptionRequestUpdate
    /\ \E found \in findOne({ r \in db.adoptRequests : r._id = task[t].id }) :
          task' = [task EXCEPT ![t].pc = "found", ![t].local = found]
    /\ UNCHANGED <<db, pageVars, recVars, webVars>>

\* adoptRequestsCollection.updateOne(filter, { $set: { adoption_status, adopted, ... } })
AdoptionRequestSet(t) ==
    /\ task[t].pc = "found"
    /\ task[t].endpoint = AdoptionRequestUpdate
    /\ LET status == task[t].body.adoption_status[1]
           hit(r) == r._id = task[t].id
           change(r) == With([r EXCEPT !.adoption_status = status,
                                       !.adopted = (status = "accepted")],
                             "last_updated", Today)
       IN  db' = [db EXCEPT !.adoptRequests = SetWhere(@, hit, change)]
    /\ task' = [task EXCEPT ![t].pc = "updated"]
    /\ UNCHANGED <<pageVars, recVars, webVars>>

\* if (requestDoc && id) petCollection.updateOne({ _id: new ObjectId(id) }, ...)
\* where id is req.params.id, the _id of the adoption request
AdoptionRequestSetPet(t) ==
    /\ task[t].pc = "updated"
    /\ task[t].endpoint = AdoptionRequestUpdate
    /\ LET adoptedValue == task[t].body.adoption_status[1] = "accepted"
           hit(p) == task[t].local # Null /\ p._id = task[t].id
           change(p) == [p EXCEPT !.adopted = adoptedValue]
       IN  db' = [db EXCEPT !.allPets = SetWhere(@, hit, change)]
    /\ task' = Answer(t, 200)
    /\ UNCHANGED <<pageVars, recVars, webVars>>

\* PATCH /adopt-status-update/:id: petCollection.updateOne with the filter
\* { _id, "added_by.email": userEmail }; the admin route filters by _id only
AdoptStatusSetPet(t) ==
    /\ task[t].pc = "handler"
    /\ task[t].endpoint \in { AdoptStatusUpdate, AdminAdoptStatusUpdate }
    /\ LET hit(p) == /\ p._id = task[t].id
                     /\ task[t].endpoint = AdoptStatusUpdate =>
                           p.added_by.email = task[t].caller
           change(p) == With([p EXCEPT !.adopted = task[t].body.adopted],
                             "last_updated", Today)
       IN  db' = [db EXCEPT !.allPets = SetWhere(@, hit, change)]
    /\ task' = [task EXCEPT ![t].pc = "updated"]
    /\ UNCHANGED <<pageVars, recVars, webVars>>

\* const requestExists = await adoptRequestsCollection.findOne({ pet_id: id })
AdoptStatusFind(t) ==
    /\ task[t].pc = "updated"
    /\ task[t].endpoint \in { AdoptStatusUpdate, AdminAdoptStatusUpdate }
    /\ \E found \in findOne({ r \in db.adoptRequests : r.pet_id = task[t].id }) :
          IF found = Null
          THEN task' = Answer(t, 200)
          ELSE task' = [task EXCEPT ![t].pc = "found", ![t].local = found]
    /\ UNCHANGED <<db, pageVars, recVars, webVars>>

\* the adoption_status the route writes: "accepted" on the lister's route; on
\* the admin route the body's, or accepted / pending after adoptedValue
statusToSet(t) ==
    IF task[t].endpoint = AdoptStatusUpdate THEN "accepted"
    ELSE IF task[t].body.adoption_status # Null THEN task[t].body.adoption_status[1]
    ELSE IF task[t].body.adopted THEN "accepted" ELSE "pending"

\* updateMany({ pet_id: id }, { $set: { adopted, adoption_status, ... } })
AdoptStatusSetRequests(t) ==
    /\ task[t].pc = "found"
    /\ task[t].endpoint \in { AdoptStatusUpdate, AdminAdoptStatusUpdate }
    /\ LET hit(r) == r.pet_id = task[t].id
           change(r) == With([r EXCEPT !.adopted = task[t].body.adopted,
                                       !.adoption_status = statusToSet(t)],
                             "last_updated", Today)
       IN  db' = [db EXCEPT !.adoptRequests = SetWhere(@, hit, change)]
    /\ task' = Answer(t, 200)
    /\ UNCHANGED <<pageVars, recVars, webVars>>

\* a delete that filters by _id only
DeleteAnyPetRun(t) ==
    /\ task[t].pc = "handler"
    /\ task[t].endpoint = DeleteMyPet
    /\ IF ~isValid(task[t].id)
       THEN db' = db /\ task' = Answer(t, 400)
       ELSE LET matching == { p \in db.allPets : p._id = task[t].id }
            IN  /\ db' = [db EXCEPT !.allPets = @ \ matching]
                /\ task' = Answer(t, IF matching = {} THEN 404 ELSE 200)
    /\ UNCHANGED <<pageVars, recVars, webVars>>

\* DELETE /dashboard/my-added-pets/:id: 400 for an invalid id;
\* deleteOne({ _id, "added_by.email": userEmail }); 404 when nothing was deleted
DeleteMyPetRun(t) ==
    /\ task[t].pc = "handler"
    /\ task[t].endpoint = DeleteMyPet
    /\ IF ~isValid(task[t].id)
       THEN db' = db /\ task' = Answer(t, 400)
       ELSE LET matching == { p \in db.allPets :
                                 p._id = task[t].id /\ p.added_by.email = task[t].caller }
            IN  /\ db' = [db EXCEPT !.allPets = @ \ matching]
                /\ task' = Answer(t, IF matching = {} THEN 404 ELSE 200)
    /\ UNCHANGED <<pageVars, recVars, webVars>>

InitAdopt ==
    /\ store = <<>>
    /\ writes = 0
    /\ CallsIdle(Calls)
    /\ pets = <<>>
    /\ RecIdle
    /\ WebIdle
    /\ \E requests \in InitialRequests :
          db = [EmptyDb EXCEPT !.users = InitialUsers, !.allPets = InitialAdoptPets,
                               !.adoptRequests = requests]
    /\ task = [t \in Tasks |-> NoTask]

NextAdopt ==
    \/ \E t \in Tasks : AdoptRequestArrive(t)
    \/ \E t \in Tasks : AdoptionRequestUpdateArrive(t)
    \/ \E t \in Tasks : AdoptStatusUpdateArrive(t)
    \/ \E t \in Tasks : AdminAdoptStatusUpdateArrive(t)
    \/ \E t \in Tasks : DeleteMyPetArrive(t)
    \/ \E t \in Tasks : verifyAdmin(t)
    \/ \E t \in Tasks : verifyUserOrAdmin(t)
    \/ \E t \in Tasks : AdoptRequestInsert(t)
    \/ \E t \in Tasks : AdoptionRequestFind(t)
    \/ \E t \in Tasks : AdoptionRequestSet(t)
    \/ \E t \in Tasks : AdoptionRequestSetPet(t)
    \/ \E t \in Tasks : AdoptStatusSetPet(t)
    \/ \E t \in Tasks : AdoptStatusFind(t)
    \/ \E t \in Tasks : AdoptStatusSetRequests(t)
    \/ \E t \in Tasks : DeleteMyPetRun(t)

SpecAdopt == InitAdopt /\ [][NextAdopt]_vars

\* ---- properties of paginateCollection ----

\* the call has computed its effective cursor (the offset handed to skip)
Adjusted(r) == pc[r] \in {"fetch", "done"} \/ (pc[r] = "failed" /\ issued[r].fetch = 1)

Returned(r) == pc[r] = "done"
Page(r) == result[r][1]

\* no write reached the collection between the call's count and its fetch
Quiet(r) == seen[r].count = seen[r].fetch

\* C1: for every total, limit and cursor of a request the offset skipped
\* satisfies 0 <= effectiveCursor <= total.
C1_CursorInRange ==
    \A r \in Calls :
        Adjusted(r) => 0 <= adjustedCursor[r] /\ adjustedCursor[r] <= total[r]

\* C2: a requested cursor >= total is replaced by max(total - limit, 0); a
\* requested cursor < total is used as it is.
C2_Clamp ==
    \A r \in Calls :
        Adjusted(r) =>
            /\ cursor[r] >= total[r] =>
                  /\ adjustedCursor[r] \in {total[r] - pageSize[r], 0}
                  /\ adjustedCursor[r] >= total[r] - pageSize[r]
                  /\ adjustedCursor[r] >= 0
            /\ cursor[r] < total[r] => adjustedCursor[r] = cursor[r]

\* a cursor past the end was snapped back to the last page
C2_Witness ==
    \E r \in Calls :
        /\ Returned(r)
        /\ cursor[r] >= total[r]
        /\ adjustedCursor[r] = total[r] - pageSize[r]
        /\ adjustedCursor[r] > 0

\* C3: with no write between count and fetch the page holds
\* min(limit, total - effectiveCursor) items when effectiveCursor < total,
\* and none otherwise.
C3_ItemCount ==
    \A r \in Calls :
        Returned(r) /\ Quiet(r) =>
            Len(Page(r).items) =
                IF adjustedCursor[r] < total[r]
                THEN Min(pageSize[r], total[r] - adjustedCursor[r])
                ELSE 0

\* C4: nextId is present exactly when effectiveCursor + limit < total, and
\* then equals effectiveCursor + limit.
C4_NextId ==
    \A r \in Calls :
        Returned(r) =>
            /\ Page(r).nextId # Null <=> adjustedCursor[r] + pageSize[r] < total[r]
            /\ Page(r).nextId # Null =>
                  Page(r).nextId = Num(adjustedCursor[r] + pageSize[r])

\* a page that is followed by another one
C4_Witness ==
    \E r \in Calls :
        /\ Returned(r)
        /\ Page(r).nextId # Null
        /\ Page(r).items # <<>>

\* C5: previousId is present exactly when effectiveCursor - limit >= 0, and
\* then equals effectiveCursor - limit.
C5_PreviousId ==
    \A r \in Calls :
        Returned(r) =>
            /\ Page(r).previousId # Null <=> adjustedCursor[r] - pageSize[r] >= 0
            /\ Page(r).previousId # Null =>
                  Page(r).previousId = Num(adjustedCursor[r] - pageSize[r])

\* the second page of a collection, whose previous page starts at 0
C5_Witness ==
    \E r \in Calls :
        /\ Returned(r)
        /\ Page(r).previousId = Num(0)
        /\ adjustedCursor[r] > 0

\* C6: every page returned holds at most limit items, whatever the request
\* and whatever writes interleave with the call.
C6_AtMostLimit ==
    \A r \in Calls : Returned(r) => Len(Page(r).items) <= pageSize[r]

\* C7: the call never fails because of its paging inputs: a missing,
\* non-numeric or zero limit counts as 6, a missing or non-numeric cursor as
\* 0, and only a fault of the store makes the call fail.
C7_NeverFailsOnInputs ==
    \A r \in Calls :
        pc[r] # "idle" =>
            /\ query[r].limit \in {Undefined, <<"x">>, <<"0">>} => pageSize[r] = 6
            /\ query[r].cursor = Undefined => cursor[r] = 0
            /\ pc[r] = "failed" => thrown[r][1] \in StoreFaults

Rank(coll, filter, i) == Cardinality({ j \in 1..i : Matches(coll[j], filter) })

\* C9: count and fetch are two separate reads: total is the number of
\* matching documents when the count is answered, and the items are the
\* matching documents of the collection as it is when the fetch is answered,
\* after any write made in between.
C9_TwoReads ==
    [][\A r \in Calls :
          /\ pc[r] = "count" /\ pc'[r] = "fetch" =>
                total'[r] = Rank(store, query[r].filter, Len(store))
          /\ pc[r] = "fetch" /\ pc'[r] = "done" =>
                LET page == result'[r][1]
                    f == query[r].filter
                    from == adjustedCursor[r]
                    picked == { i \in 1..Len(store) :
                                  /\ Matches(store[i], f)
                                  /\ Rank(store, f, i) > from
                                  /\ Rank(store, f, i) <= from + Abs(pageSize[r]) }
                IN  /\ page.total = total[r]
                    /\ Len(page.items) = Cardinality(picked)
                    /\ \A k \in 1..Len(page.items) :
                          \E i \in picked :
                              /\ store[i] = page.items[k]
                              /\ Rank(store, f, i) = from + k
      ]_vars

\* a write between count and fetch left a page whose length is not
\* min(limit, total - effectiveCursor)
C9_Witness ==
    \E r \in Calls :
        /\ Returned(r)
        /\ ~Quiet(r)
        /\ pageSize[r] > 0
        /\ 0 <= adjustedCursor[r] /\ adjustedCursor[r] < total[r]
        /\ Len(Page(r).items) # Min(pageSize[r], total[r] - adjustedCursor[r])

\* C10: a failing count or fetch reaches the caller as the store raised it
\* and nothing is retried: at most one count and one fetch per call, no fetch
\* after a failed count, and no page for a failed call.
C10_FailurePropagated ==
    /\ [](\A r \in Calls :
            /\ issued[r].count <= 1
            /\ issued[r].fetch <= issued[r].count
            /\ issued[r].error # Null => pc[r] = "failed"
            /\ pc[r] = "failed" =>
                  /\ result[r] = NoResult
                  /\ thrown[r] # Null
                  /\ thrown[r] = issued[r].error)
    /\ [][\A r \in Calls :
            pc[r] = "failed" =>
                pc'[r] = "failed" /\ issued'[r] = issued[r] /\ result'[r] = NoResult
         ]_vars

\* a count failed: the caller holds the store's error and no fetch was sent
C10_Witness ==
    \E r \in Calls :
        /\ pc[r] = "failed"
        /\ issued[r] = [count |-> 1, fetch |-> 0, error |-> thrown[r]]
        /\ thrown[r][1] \in StoreFaults

\* ---- properties of the recommendation handlers ----

RecAnswered(mode) == rpc = "done" /\ rquery.mode = mode
RecOk(mode) == RecAnswered(mode) /\ Len(rresp) = 1 /\ rresp[1].status = 200
RecBody == rresp[1].list[1]

\* the aggregation was rejected by an outage of the store
RecOutage == ragg.error # Null /\ ragg.error[1] \in StoreFaults

\* the limit the request asks for
LimitAsked(q) ==
    CASE q.limit = Undefined -> 12
      [] q.limit = <<"1">> -> 1
      [] q.limit = <<"2">> -> 2
      [] q.limit = <<"0">> -> 0

\* the stored pet a returned entry stands for
Source(entry) == CHOOSE p \in Range(pets) : p._id = entry._id
Returns(p) == \E i \in 1..Len(RecBody) : RecBody[i]._id = p._id
PlaceOf(p) == CHOOSE i \in 1..Len(RecBody) : RecBody[i]._id = p._id

Wanted(q, p) == p.category \in Range(q.categories.items) /\ p.adopted = FALSE
LocationMatches(q, p) == Has(p, "location") /\ regexMatch(q.district, p.location)

\* the listing carries the time it was created
Timed(p) == Has(p, "created_at") /\ p.created_at.type # "null"
AgeInDays(p) == (Now - p.created_at.t) \div DayMs
LocationPoints(q, p) == IF LocationMatches(q, p) THEN 10 ELSE 5
TotalPoints(q, p) == LocationPoints(q, p) + 10 - AgeInDays(p)

\* what the advanced handler admits
Admitted(q, p) == Wanted(q, p) /\ (LocationMatches(q, p) \/ ~Has(p, "location"))

\* C12: advanced recommend answers its documents by totalScore descending,
\* totalScore = locationScore (10 on a location match, else 5) + freshnessScore,
\* ties by created_at descending; with equal freshness a document whose
\* location matches precedes one whose location does not.
C12_ScoreOrder ==
    RecAnswered("advanced") /\ ~RecOutage /\ LimitAsked(rquery) >= 1 =>
        /\ RecOk("advanced")
        /\ \A i, j \in 1..Len(RecBody) :
              i < j =>
                 LET a == Source(RecBody[i])
                     b == Source(RecBody[j])
                 IN  /\ Timed(a) /\ Timed(b) =>
                           \/ TotalPoints(rquery, a) > TotalPoints(rquery, b)
                           \/ /\ TotalPoints(rquery, a) = TotalPoints(rquery, b)
                              /\ a.created_at.t >= b.created_at.t
                     /\ a.created_at = b.created_at =>
                           LocationPoints(rquery, a) >= LocationPoints(rquery, b)

\* C13: advanced recommend admits an available document of a requested
\* category exactly when its location matches the hint or it has no location:
\* nothing else is returned, and every such document is returned unless the
\* limit cut the list.
C13_AdvancedAdmission ==
    RecOk("advanced") =>
        /\ \A i \in 1..Len(RecBody) : Admitted(rquery, Source(RecBody[i]))
        /\ Len(RecBody) < LimitAsked(rquery) =>
              \A p \in Range(pets) : Admitted(rquery, p) => Returns(p)

\* a document without location was returned while a document of the same
\* category with another location was left out
C13_Witness ==
    /\ RecOk("advanced")
    /\ \E p \in Range(pets) : ~Has(p, "location") /\ Returns(p)
    /\ \E p \in Range(pets) :
          Wanted(rquery, p) /\ Has(p, "location") /\ ~LocationMatches(rquery, p)

\* C14: freshnessScore = 10 - days since created_at has no floor: it is
\* negative for every listing older than 10 days, and of two candidates with
\* the same locationScore the one created later ranks first, also when both
\* are older than 10 days.
C14_FreshnessDecay ==
    RecAnswered("advanced") /\ ~RecOutage /\ LimitAsked(rquery) >= 1 =>
        /\ \A p \in Range(pets) :
              Admitted(rquery, p) /\ Timed(p) /\ AgeInDays(p) > 10 =>
                  /\ FreshnessScore(p).ok
                  /\ FreshnessScore(p).v # Null
                  /\ FreshnessScore(p).v[1] < 0
        /\ RecOk("advanced")
        /\ \A a, b \in Range(pets) :
              /\ Admitted(rquery, a) /\ Admitted(rquery, b)
              /\ Timed(a) /\ Timed(b)
              /\ LocationPoints(rquery, a) = LocationPoints(rquery, b)
              /\ a.created_at.t > b.created_at.t
              /\ Returns(b)
              => Returns(a) /\ PlaceOf(a) < PlaceOf(b)

\* the hint occurs in the text, letter case ignored
Contains(text, hint) ==
    \E i \in 0..(Len(text) - Len(hint)) :
        \A k \in 1..Len(hint) : Lower(text[i + k]) = Lower(hint[k])

\* C15: every document basic recommend returns has a requested category, a
\* location that contains the hint case-insensitively, and adopted = false.
C15_BasicFilter ==
    RecOk("basic") =>
        \A i \in 1..Len(RecBody) :
            LET p == Source(RecBody[i])
            IN  /\ Wanted(rquery, p)
                /\ Has(p, "location") /\ Contains(p.location, rquery.district)

\* time of creation, listings without one last
CreatedAt(p) == IF Timed(p) THEN p.created_at.t ELSE 0 - 1

\* C16: basic recommend returns min(limit, number of matching documents)
\* documents, newest first, and leaves out no matching document newer than
\* one it returns; the limit is 12 when the request gives none.
C16_BasicPage ==
    RecOk("basic") =>
        LET matching == { p \in Range(pets) : Wanted(rquery, p) /\ LocationMatches(rquery, p) }
        IN  /\ Len(RecBody) = Min(LimitAsked(rquery), Cardinality(matching))
            /\ \A i \in 1..Len(RecBody) : Source(RecBody[i]) \in matching
            /\ \A i, j \in 1..Len(RecBody) :
                  i < j => /\ RecBody[i]._id # RecBody[j]._id
                           /\ CreatedAt(Source(RecBody[i])) >= CreatedAt(Source(RecBody[j]))
            /\ \A p \in matching :
                  ~Returns(p) =>
                      \A i \in 1..Len(RecBody) : CreatedAt(p) <= CreatedAt(Source(RecBody[i]))
            /\ rquery.limit = Undefined => ragg.limit = Num(12)

\* the limit cut a list of matching documents of different age
C16_Witness ==
    /\ RecOk("basic")
    /\ Len(RecBody) = 2
    /\ LimitAsked(rquery) = 2
    /\ CreatedAt(Source(RecBody[1])) > CreatedAt(Source(RecBody[2]))
    /\ \E p \in Range(pets) :
          Wanted(rquery, p) /\ LocationMatches(rquery, p) /\ ~Returns(p)

\* C17: no entry returned by either handler carries password or email in
\* added_by, and no entry of the advanced handler carries a score field.
C17_Stripped ==
    \A m \in {"basic", "advanced"} :
        RecOk(m) =>
            \A i \in 1..Len(RecBody) :
                /\ Has(RecBody[i], "added_by") =>
                      DOMAIN RecBody[i].added_by \cap {"password", "email"} = {}
                /\ DOMAIN RecBody[i] \cap {"locationScore", "freshnessScore", "totalScore"} = {}

\* an entry came back joined with a lister who has an email and a password
C17_Witness ==
    /\ RecOk("advanced")
    /\ \E i \in 1..Len(RecBody) :
          /\ Has(RecBody[i], "added_by")
          /\ Has(RecBody[i].added_by, "name")
          /\ \E u \in UserDocs :
                /\ u._id = RecBody[i].added_by._id
                /\ {"password", "email"} \subseteq DOMAIN u

\* C18: in both modes a failing aggregation gives exactly one failure
\* response, of the one kind, carrying the error's message, and no list.
C18_OneFailure ==
    /\ ragg.count <= 1
    /\ Len(rresp) <= 1
    /\ rpc = "done" =>
          /\ Len(rresp) = 1
          /\ ragg.error # Null =>
                /\ rresp[1].status = 500
                /\ rresp[1].list = Null
                /\ rresp[1].error = Num(FetchFailed)
                /\ rresp[1].message = ragg.error
          /\ ragg.error = Null => rresp[1].status = 200

\* the store was down while the advanced handler waited for its aggregation
C18_Witness ==
    /\ RecAnswered("advanced")
    /\ RecOutage
    /\ rresp[1].message = ragg.error

\* ---- properties of the HTTP layer ----

PageAlone(q) ==
    LET size == PageSizeOf(q.limit)
        t == Rank(store, q.filter, Len(store))
        from == AdjustedCursor(CursorOf(q.cursor), t, size)
        picked == { i \in 1..Len(store) :
                      /\ Matches(store[i], q.filter)
                      /\ Rank(store, q.filter, i) > from
                      /\ Rank(store, q.filter, i) <= from + size }
    IN  [ids |-> { store[i].id : i \in picked },
         nextId |-> NextId(from, size, t),
         previousId |-> PreviousId(from, size),
         total |-> t]

\* C19: paginate and recommend never modify the store or state shared
\* between requests: no step of a call changes a collection, and in every
\* interleaving of concurrent calls each call returns what it returns alone.
C19_Frame ==
    /\ [][store' = store /\ pets' = pets /\ writes' = writes]_vars
    /\ [](\A r \in Callers :
             pc[r] = "done" =>
                LET page == result[r][1]
                    alone == PageAlone(query[r])
                IN  /\ { page.items[i].id : i \in 1..Len(page.items) } = alone.ids
                    /\ Len(page.items) = Cardinality(alone.ids)
                    /\ page.nextId = alone.nextId
                    /\ page.previousId = alone.previousId
                    /\ page.total = alone.total)
    /\ [](rpc = "done" /\ ragg.error = Null =>
             rresp[1].list[1] \in Recommendations(rquery, DefaultRecLimit))

\* two calls and a recommendation request were in flight together and all
\* came back
C19_Witness ==
    /\ \A r \in Callers : pc[r] = "done" /\ seen[r].fetch = 0
    /\ query[1] # query[2]
    /\ result[1] # result[2]
    /\ rpc = "done"
    /\ Len(rresp[1].list[1]) = 3

\* ---- properties of verifyToken ----

\* the token is one jwt.verify accepts
TokenGood(token) ==
    token.cookie /\ token.value = "jwt" /\ token.key = "server" /\ ~token.expired

\* C20: behind verifyToken, a request without a token cookie or with a token
\* that fails verification gets a 401, its handler never runs, and the store
\* is unchanged.
C20_Unauthorized ==
    /\ [](\A r \in Reqs :
             hpc[r] # "idle" /\ ~TokenGood(hreq[r].token) =>
                /\ hpc[r] \in { "verifyToken", "done" }
                /\ \A i \in 1..Len(hlog[r]) : hlog[r][i] # "handler"
                /\ hpc[r] = "done" => hresp[r] = <<401>>)
    /\ [][store' # store =>
             \E r \in Reqs : /\ hpc[r] = "handler"
                             /\ hpc'[r] = "done"
                             /\ TokenGood(hreq[r].token)]_vars

\* a request without cookie and one with a forged token were both turned
\* away from endpoints that write
C20_Witness ==
    /\ hpc[1] = "done" /\ hreq[1].token = NoToken /\ hreq[1].endpoint = AddPet
    /\ hpc[2] = "done" /\ hreq[2].token.key = "other" /\ hreq[2].endpoint = DeleteMyPet
    /\ hresp[1] = <<401>> /\ hresp[2] = <<401>>

\* ---- properties of the user and admin endpoints ----

\* some stored user with this email has role admin
IsAdmin(email) == \E u \in db.users : u.email = email /\ u.role = "admin"

\* the step is one of request t
StepOf(t) == task'[t] # task[t]

\* C21: an admin endpoint runs its handler only when the email of the
\* caller's token belongs to a stored user with role admin; any other caller
\* is answered 403 and nothing in the store changes.
C21_AdminOnly ==
    [][\A t \in Tasks :
          /\ task[t].pc = "idle" /\ task'[t].endpoint \in AdminEndpoints =>
                task'[t].pc = "verify" /\ db' = db
          /\ task[t].endpoint \in AdminEndpoints /\ StepOf(t) =>
                /\ task'[t].pc = "handler" => task[t].pc = "verify" /\ IsAdmin(task[t].caller)
                /\ task[t].pc = "verify" /\ ~IsAdmin(task[t].caller) =>
                      task'[t].pc = "done" /\ task'[t].status = 403
                /\ task[t].pc # "handler" => db' = db]_vars

\* a stored user without the admin role was turned away from an endpoint
\* that an admin used to delete the pet
C21_Witness ==
    /\ task[1].endpoint = AdminDeletePet /\ task[1].caller = "bob@x"
    /\ task[1].pc = "done" /\ task[1].status = 403
    /\ task[2].endpoint = AdminDeletePet /\ task[2].caller = "ann@x"
    /\ task[2].pc = "done" /\ task[2].status = 200
    /\ db.allPets = {}

\* field k is the same in both documents
SameField(u, v, k) == (Has(u, k) <=> Has(v, k)) /\ (Has(u, k) => u[k] = v[k])
\* the documents differ in no field outside ks
SameBut(u, v, ks) == \A k \in (DOMAIN u \cup DOMAIN v) \ ks : SameField(u, v, k)

\* C26: a stored user's role changes only through PATCH /user/role-update
\* called by an admin: POST /user inserts with role 'user' whatever the body
\* says and writes only last_loggedIn of an existing user, and PATCH
\* /user/profile writes only name, profilepic and last_updated.
C26_RoleWrites ==
    [][/\ \A u \in db.users, v \in db'.users :
             u._id = v._id =>
                /\ u.role # v.role =>
                      \E t \in Tasks : /\ StepOf(t)
                                       /\ task[t].endpoint = RoleUpdate
                                       /\ task[t].pc = "handler"
                /\ (\E t \in Tasks : StepOf(t) /\ task[t].endpoint = PostUser) =>
                      SameBut(u, v, { "last_loggedIn" })
                /\ (\E t \in Tasks : StepOf(t) /\ task[t].endpoint = PatchProfile) =>
                      SameBut(u, v, { "name", "profilepic", "last_updated" })
       /\ \A v \in db'.users :
             (\A u \in db.users : u._id # v._id) =>
                /\ v.role = "user"
                /\ \E t \in Tasks : StepOf(t) /\ task[t].endpoint = PostUser
       /\ \A u \in db.users : \E v \in db'.users : u._id = v._id]_vars

\* a sign-up that posted role admin was stored as a user, and a profile
\* update that posted role admin went through
C26_Witness ==
    /\ task[1].endpoint = PostUser /\ task[1].body.role = <<"admin">>
    /\ task[1].pc = "done" /\ task[1].email = "cat@x"
    /\ \E u \in db.users : u.email = "cat@x" /\ u.role = "user"
    /\ task[2].endpoint = PatchProfile /\ task[2].status = 200
    /\ \E u \in db.users : Has(u, "last_updated") /\ u.name = "n1"

\* C29: after any interleaving of POST /user requests the users collection
\* holds at most one document per email.
C29_OnePerEmail ==
    \A u, v \in db.users : u.email = v.email => u = v

\* ---- properties of the review endpoint ----

\* C22: after any interleaving of POST /submit-review requests the reviews
\* collection holds at most one active review per userEmail; a submit for a
\* userEmail that has an active review is answered 409 and inserts nothing.
C22_OneActiveReview ==
    \A r1, r2 \in db.reviews :
        r1.userEmail = r2.userEmail /\ r1.status = "active" /\ r2.status = "active"
            => r1 = r2

\* ---- properties of the donation endpoints ----

\* no request is under way
Quiescent == \A t \in Tasks : task[t].pc \in { "idle", "done" }

\* every campaign's total_donations is the sum of its stored donations
TotalsInStep ==
    \A c \in db.donationsCollection :
        (IF Has(c, "total_donations") THEN c.total_donations ELSE 0)
            = SumAmounts({ d \in db.recievedDonationCollection : d.campaign_id = c._id })

\* C23: once every in-flight POST /recieved-donation of a campaign has
\* completed, the campaign's total_donations is the sum of amount_donated over
\* its stored donations, for every interleaving of the insert, sum and update
\* steps of concurrent requests.
C23_TotalAfterDonations ==
    Quiescent /\ (\A t \in Tasks : task[t].endpoint \in { "", RecievedDonation })
        => TotalsInStep

\* C28: after DELETE /dashboard/donation-delete/:id deleted a donation
\* ('Refunded successfully') the campaign's total_donations is the sum of
\* amount_donated over the campaign's remaining donations.
C28_TotalAfterRefund ==
    Quiescent /\ (\E t \in Tasks : task[t].endpoint = DonationDelete /\ task[t].status = 200)
              /\ (\A t \in Tasks : task[t].endpoint \in { "", DonationDelete })
        => TotalsInStep

\* ---- properties of the adoption endpoints ----

\* C24: when PATCH /adoption-request-update/:id sets adoption_status to
\* 'accepted' on an existing adoption request, the pet the request refers to
\* (its pet_id) ends with adopted = true; with any other status that pet ends
\* with adopted = false.
C24_PetFollowsRequest ==
    \A t \in Tasks :
        /\ task[t].endpoint = AdoptionRequestUpdate
        /\ task[t].pc = "done" /\ task[t].status = 200
        /\ task[t].local # Null
        /\ \A o \in Tasks \ { t } : task[o].pc = "idle"
        => \A p \in db.allPets :
              p._id = task[t].local[1].pet_id =>
                  p.adopted = (task[t].body.adoption_status[1] = "accepted")

\* C25: a caller of PATCH /adopt-status-update/:id who is not the lister of
\* the pet changes neither the pet nor any adoption request.
C25_NotTheLister ==
    [][\A t \in Tasks :
          /\ StepOf(t)
          /\ task[t].endpoint = AdoptStatusUpdate
          /\ \E p \in db.allPets : p._id = task[t].id /\ p.added_by.email # task[t].caller
          => db' = db]_vars

\* C27: in every reachable state each adoption request has adoption_status
\* 'accepted' exactly when its adopted flag is true.
C27_AcceptedIffAdopted ==
    \A r \in db.adoptRequests : (r.adoption_status = "accepted") <=> r.adopted

====
